---- MODULE Spec2Model ----
(***************************************************************************)
(* OllamaChat: the Completion Relay (main.py, ollama_client.py) and the    *)
(* Context Assembler (context_builder.py).                                 *)
(*                                                                         *)
(* Spec     one POST /v1/chat/completions call, streaming or not.          *)
(* SpecCtx  one ContextBuilder instance over a small file system.          *)
(* SpecPull one POST /api/models/pull call.                                *)
(***************************************************************************)
EXTENDS Integers, Sequences, FiniteSets, TLC

VARIABLES
    pc,             \* position of the chat call
    request,        \* the ChatCompletionRequest being served
    status,         \* HTTP status of the response (0: none yet)
    backend_calls,  \* POSTs issued to /api/chat for this call
    messages,       \* roles of the messages handed to the backend
    conn,           \* the streaming connection to the backend
    lines,          \* lines received so far from response.aiter_lines()
    out,            \* events yielded so far by generate()
    data,           \* the backend's JSON object of a non-streaming call
    response,       \* the completion object returned by a non-streaming call
    detail,         \* the error text given to the client: its cause and hint
    fs,             \* the file system: absolute path -> directory, file or link
    cb_pc,          \* position of the ContextBuilder instance
    project_root,   \* ContextBuilder.project_root (absolute path)
    op,             \* the last ContextBuilder operation and its arguments
    result,         \* what that operation returned
    pull_pc,        \* position of the pull call and of its generators
    download_client,\* the httpx.AsyncClient created by pull_model
    pull_posts,     \* POSTs issued to /api/pull for this call
    pull_lines,     \* lines received so far from response.aiter_lines()
    pull_out,       \* what OllamaClient.pull_model has yielded so far
    pull_error,     \* the exception caught by pull_model ("": none)
    sse             \* what the endpoint's generate() has yielded so far

vars == <<pc, request, status, backend_calls, messages, conn, lines, out, data,
          response, detail, fs, cb_pc, project_root, op, result, pull_pc,
          download_client, pull_posts, pull_lines, pull_out, pull_error, sse>>

relayVars == <<pc, request, status, backend_calls, messages, conn, lines, out,
               data, response, detail>>
ctxVars == <<fs, cb_pc, project_root, op, result>>
pullVars == <<pull_pc, download_client, pull_posts, pull_lines, pull_out,
              pull_error, sse>>

\* ------------------------------------------------------------------ bounds
MaxLines == 3       \* lines the backend sends in one streaming call
MaxTokens == 2      \* largest token count the backend reports
MaxMessages == 2    \* client messages in one request
MaxDepth == 2       \* largest max_depth given to the tree and file listing
MaxSelected == 2    \* longest selected_files list
MaxSize == 3        \* largest max_file_size
MaxPullLines == 3   \* lines the backend sends in one pull

\* ------------------------------------------------------------ generic helpers
\* dict.get(key, default)
Get(d, k, default) == IF k \in DOMAIN d THEN d[k] ELSE default

Last(s) == s[Len(s)]

\* ===================================================================
\*                       COMPLETION RELAY
\* ===================================================================

Contents == {"", "He", "llo"}

\* One line of the backend's NDJSON stream, by what json.loads and the
\* translation make of it:
\*   empty      ""                 (skipped by `if line:`)
\*   malformed  json.loads raises JSONDecodeError
\*   nonobject  valid JSON that is not an object ("message" in data raises)
\*   object     a JSON object; hasMessage: the key "message" is present,
\*              content: message.get("content", ""), done: data.get("done", False)
Line(k, m, c, d) == [kind |-> k, hasMessage |-> m, content |-> c, done |-> d]

Lines ==
    {Line("empty", FALSE, "", FALSE),
     Line("malformed", FALSE, "", FALSE),
     Line("nonobject", FALSE, "", FALSE)}
    \cup {Line("object", TRUE, c, d) : c \in Contents, d \in BOOLEAN}
    \cup {Line("object", FALSE, "", d) : d \in BOOLEAN}

Event(k, c) == [kind |-> k, content |-> c]

\* The events generate() yields for one line that json.loads accepted as an
\* object: a delta when the message content is non-empty, then the final chunk
\* and [DONE] when done is set.
ChunksBuggyNoEmptyCheck(line) ==
    (IF line.hasMessage THEN <<Event("delta", line.content)>> ELSE <<>>)
    \o (IF line.done THEN <<Event("final", ""), Event("DONE", "")>> ELSE <<>>)

Chunks(line) ==
    (IF line.hasMessage /\ line.content # ""
        THEN <<Event("delta", line.content)>> ELSE <<>>)
    \o (IF line.done THEN <<Event("final", ""), Event("DONE", "")>> ELSE <<>>)

\* chat_completions up to the point where it hands over to the backend:
\* validation of model and messages.
Models == {"", " ", "llama3"}
Roles == {"system", "user", "assistant"}

SeqsUpTo(S, n) == UNION {[1..k -> S] : k \in 0..n}

Requests ==
    [model : Models, messages : SeqsUpTo(Roles, MaxMessages), stream : BOOLEAN]

ValidBuggyNoMessagesCheck(req) ==
    ~(req.model = "" \/ req.model = " ")

\* `not request.model or not request.model.strip()` and
\* `not request.messages or len(request.messages) == 0`
Valid(req) ==
    /\ ~(req.model = "" \/ req.model = " ")
    /\ ~(Len(req.messages) = 0)

\* messages.insert(0, {"role": "system", ...}) on the copy of request.messages
Prepared(req) == <<"system">> \o req.messages

\* The backend's reply to a non-streaming POST /api/chat, as response.json():
\* hasMessage/content: data["message"]["content"]; counts: the token counters
\* that are present.
CountKeys == {"prompt_eval_count", "eval_count"}

BackendData ==
    UNION {[hasMessage : BOOLEAN, content : {"hi", ""},
            counts : [K -> 0..MaxTokens]] : K \in SUBSET CountKeys}

Choice(c) == [index |-> 0, role |-> "assistant", content |-> c,
              finish_reason |-> "stop"]

TransformBuggyTotal(d) ==
    [choices |-> <<Choice(d.content)>>,
     prompt_tokens |-> Get(d.counts, "prompt_eval_count", 0),
     completion_tokens |-> Get(d.counts, "eval_count", 0),
     total_tokens |-> Get(d.counts, "eval_count", 0)]

\* The OpenAI-style completion object built from the backend's object.
Transform(d) ==
    [choices |-> <<Choice(d.content)>>,
     prompt_tokens |-> Get(d.counts, "prompt_eval_count", 0),
     completion_tokens |-> Get(d.counts, "eval_count", 0),
     total_tokens |-> Get(d.counts, "prompt_eval_count", 0)
                        + Get(d.counts, "eval_count", 0)]

NoRequest == [model |-> "", messages |-> <<>>, stream |-> FALSE]
NoCounts == CHOOSE f \in [{} -> {0}] : TRUE
NoData == [hasMessage |-> FALSE, content |-> "", counts |-> NoCounts]
NoResponse == [choices |-> <<>>, prompt_tokens |-> 0, completion_tokens |-> 0,
               total_tokens |-> 0]

\* What an exception's text is like, for the substring tests of
\* chat_completions: "connect"/"connection" in it, "model" and "not found" /
\* "does not exist" in it, or neither.
Causes == {"connect", "notfound", "other"}

NoDetail == [cause |-> "none", hint |-> FALSE]

\* The `except Exception` of chat_completions: the hint is put in front of a
\* connection-like or model-not-found-like text.
Annotated(cause) == [cause |-> cause, hint |-> cause \in {"connect", "notfound"}]

\* The `except Exception` of generate(): json.dumps({'error': str(e)}), the
\* text as it is.
Raw(cause) == [cause |-> cause, hint |-> FALSE]

InitRelay ==
    /\ pc = "start"
    /\ request = NoRequest
    /\ status = 0
    /\ backend_calls = 0
    /\ messages = <<>>
    /\ conn = "none"
    /\ lines = <<>>
    /\ out = <<>>
    /\ data = NoData
    /\ response = NoResponse
    /\ detail = NoDetail

\* POST /v1/chat/completions arrives: validation, then either the
\* StreamingResponse is returned (the backend is not called yet:
\* stream_response is a generator that has not started) or the non-streaming
\* call is started.
chat_completions ==
    /\ pc = "start"
    /\ \E req \in Requests :
        /\ request' = req
        /\ IF ~Valid(req)
              THEN /\ pc' = "rejected"
                   /\ status' = 400
                   /\ messages' = messages
              ELSE /\ messages' = Prepared(req)
                   /\ IF req.stream
                         THEN pc' = "stream_ready" /\ status' = 200
                         ELSE pc' = "calling" /\ status' = 0
    /\ UNCHANGED <<backend_calls, conn, lines, out, data, response, detail>>

\* First iteration of generate(): stream_response starts, client.stream()
\* posts to /api/chat. A refused connection or a non-2xx status
\* (raise_for_status) raises inside stream_response, propagates through
\* `async for line in stream_gen` and is caught by generate's except.
stream_open ==
    /\ pc = "stream_ready"
    /\ backend_calls' = backend_calls + 1
    /\ \/ /\ conn' = "open"
          /\ pc' = "awaiting"
          /\ out' = out
          /\ detail' = detail
       \/ /\ conn' = "failed"
          /\ pc' = "closed"
          /\ out' = Append(out, Event("error", ""))
          /\ \E cause \in Causes : detail' = Raw(cause)
    /\ UNCHANGED <<request, status, messages, lines, data, response>>

\* A mid-stream transport error answered by calling the backend again.
stream_fail_retry ==
    /\ pc = "awaiting"
    /\ conn' = "failed"
    /\ pc' = "stream_ready"
    /\ out' = Append(out, Event("error", ""))
    /\ \E cause \in Causes : detail' = Raw(cause)
    /\ UNCHANGED <<request, status, backend_calls, messages, lines, data, response>>

\* response.aiter_lines() raises (connection lost, read timeout): the
\* exception leaves the for loop and generate's `except Exception` yields the
\* error payload; generate then returns.
stream_fail ==
    /\ pc = "awaiting"
    /\ conn' = "failed"
    /\ pc' = "closed"
    /\ out' = Append(out, Event("error", ""))
    /\ \E cause \in Causes : detail' = Raw(cause)
    /\ UNCHANGED <<request, status, backend_calls, messages, lines, data, response>>

\* The translation of one received line (body of the for loop of generate):
\* the events it yields and whether the loop goes on.
HandleBuggyMalformedAborts(line) ==
    CASE line.kind = "empty" -> [events |-> <<>>, raised |-> FALSE]
      [] line.kind = "malformed" ->
            [events |-> <<Event("error", "")>>, raised |-> TRUE]
      [] line.kind = "nonobject" ->
            [events |-> <<Event("error", "")>>, raised |-> TRUE]
      [] OTHER -> [events |-> Chunks(line), raised |-> FALSE]

Handle(line) ==
    CASE line.kind = "empty" -> [events |-> <<>>, raised |-> FALSE]
      [] line.kind = "malformed" -> [events |-> <<>>, raised |-> FALSE]
      [] line.kind = "nonobject" ->
            [events |-> <<Event("error", "")>>, raised |-> TRUE]
      [] OTHER -> [events |-> Chunks(line), raised |-> FALSE]

\* The backend sends one more line and generate() translates it. There is no
\* break after the done line: the loop keeps reading until the backend ends
\* the stream. When the translation raises (TypeError, AttributeError),
\* generate yields the error payload and returns; stream_gen, left suspended,
\* is finalised and its `async with` gives the connection back.
stream_line ==
    /\ pc = "awaiting"
    /\ Len(lines) < MaxLines
    /\ \E line \in Lines :
        /\ lines' = Append(lines, line)
        /\ out' = out \o Handle(line).events
        /\ pc' = IF Handle(line).raised THEN "closed" ELSE "awaiting"
        /\ conn' = IF Handle(line).raised THEN "released" ELSE conn
        /\ detail' = IF Handle(line).raised THEN Raw("other") ELSE detail
    /\ UNCHANGED <<request, status, backend_calls, messages, data, response>>

\* The backend ends the stream: aiter_lines is exhausted, the `async with`
\* of stream_response exits and generate returns.
stream_end ==
    /\ pc = "awaiting"
    /\ conn' = "released"
    /\ pc' = "closed"
    /\ UNCHANGED <<request, status, backend_calls, messages, lines, out, data,
                   response, detail>>

\* The client goes away while the StreamingResponse is being sent: the
\* response task is cancelled, generate() is never resumed, and stream_gen is
\* closed by the cancellation or by the finalisation of the abandoned
\* generators, which leaves the `async with` of stream_response.
client_disconnect ==
    /\ pc \in {"stream_ready", "awaiting"}
    /\ pc' = "disconnected"
    /\ conn' = IF conn = "open" THEN "released" ELSE conn
    /\ UNCHANGED <<request, status, backend_calls, messages, lines, out, data,
                   response, detail>>

\* The non-streaming call: one POST to /api/chat, answered by an object
\* (transformed; a missing "message" raises KeyError) or failing
\* (HTTPStatusError, RequestError). Every exception reaches the
\* `except Exception` of chat_completions and becomes a 500.
chat_call ==
    /\ pc = "calling"
    /\ backend_calls' = backend_calls + 1
    /\ \/ \E d \in BackendData :
            /\ data' = d
            /\ IF d.hasMessage
                  THEN /\ response' = Transform(d)
                       /\ status' = 200
                       /\ pc' = "responded"
                  ELSE /\ response' = response
                       /\ status' = 500
                       /\ pc' = "failed"
            /\ detail' = IF d.hasMessage THEN detail ELSE Annotated("other")
       \/ /\ status' = 500
          /\ pc' = "failed"
          /\ \E cause \in Causes : detail' = Annotated(cause)
          /\ UNCHANGED <<data, response>>
    /\ UNCHANGED <<request, messages, conn, lines, out>>

\* ===================================================================
\*                       CONTEXT ASSEMBLER
\* ===================================================================
\* A name is a sequence of characters, a path a sequence of names. An
\* absolute path is the sequence of its names below "/"; a relative path may
\* contain the name "..".

\* The characters in use, in code-point order (Python compares str by code point).
Alphabet == <<"*", ".", "/", "A", "D", "E", "M", "R", "a", "b", "c", "d", "e", "f", "g", "i", "k", "l",
              "m", "n", "o", "p", "s", "t", "u", "x", "y", "z">>

Ord(c) == CHOOSE i \in 1..Len(Alphabet) : Alphabet[i] = c

Min(a, b) == IF a < b THEN a ELSE b

\* s < t for two str values
StrLess(s, t) ==
    \E i \in 1..(Min(Len(s), Len(t)) + 1) :
        /\ \A j \in 1..(i - 1) : s[j] = t[j]
        /\ \/ i = Len(s) + 1 /\ i <= Len(t)
           \/ i <= Len(s) /\ i <= Len(t) /\ Ord(s[i]) < Ord(t[i])

\* s.startswith(t)
StartsWith(s, t) ==
    /\ Len(t) <= Len(s)
    /\ \A i \in 1..Len(t) : s[i] = t[i]

\* pattern.replace('*', '')
RECURSIVE StripStars(_)
StripStars(s) ==
    IF s = <<>> THEN <<>>
    ELSE IF Head(s) = "*" THEN StripStars(Tail(s))
    ELSE <<Head(s)>> \o StripStars(Tail(s))

\* fnmatch.fnmatch(name, pat) for patterns of literal characters and '*'
RECURSIVE FnMatch(_, _)
FnMatch(name, pat) ==
    IF pat = <<>> THEN name = <<>>
    ELSE IF Head(pat) = "*"
            THEN \/ FnMatch(name, Tail(pat))
                 \/ name # <<>> /\ FnMatch(Tail(name), pat)
    ELSE /\ name # <<>>
         /\ Head(name) = Head(pat)
         /\ FnMatch(Tail(name), Tail(pat))

\* str(path) of an absolute path
RECURSIVE Joined(_)
Joined(path) ==
    IF path = <<>> THEN <<>>
    ELSE <<"/">> \o Head(path) \o Joined(Tail(path))

Str(path) == IF path = <<>> THEN <<"/">> ELSE Joined(path)

\* str(rel_path) of a relative path: the names joined by "/"
RelStr(path) == IF path = <<>> THEN <<".">> ELSE Tail(Joined(path))

\* Path.parts of an absolute path: the anchor "/" and the names
Parts(path) == <<<<"/">>>> \o path

\* Path.name
Name(path) == IF path = <<>> THEN <<>> ELSE path[Len(path)]

Parent(path) == IF path = <<>> THEN <<>> ELSE SubSeq(path, 1, Len(path) - 1)

\* Path.suffix: from the last '.' of the name, unless the name starts or ends there
Suffix(name) ==
    LET dots == {i \in 2..Len(name) : name[i] = "."}
        last == CHOOSE i \in dots : \A j \in dots : j <= i
    IN IF dots = {} \/ name[Len(name)] = "." THEN <<>>
       ELSE SubSeq(name, last, Len(name))

\* ----------------------------------------------------------- the file system
Dot2 == <<".", ".">>
n_p == <<"p">>
n_pe == <<"p", "e">>
n_o == <<"o">>
n_nx == <<"n", "x">>
n_s == <<"s">>
n_t == <<"t">>
n_ln == <<"l", "n">>
n_git == <<".", "g", "i", "t">>
n_a_py == <<"a", ".", "p", "y">>
n_big_py == <<"b", "i", "g", ".", "p", "y">>
n_i_png == <<"i", ".", "p", "n", "g">>
n_z == <<"z">>
n_u_txt == <<"u", ".", "t", "x", "t">>
n_c == <<"c">>
n_d_py == <<"d", ".", "p", "y">>
n_e_pyc == <<"e", ".", "p", "y", "c">>
n_k_py == <<"k", ".", "p", "y">>
n_f_py == <<"f", ".", "p", "y">>
n_README_md == <<"R", "E", "A", "D", "M", "E", ".", "m", "d">>

Dir(r) == [type |-> "dir", readable |-> r, size |-> 0, nul |-> FALSE,
           utf8 |-> TRUE, text |-> "", target |-> <<>>]
File(sz, txt) == [type |-> "file", readable |-> TRUE, size |-> sz, nul |-> FALSE,
                  utf8 |-> TRUE, text |-> txt, target |-> <<>>]
Link(t) == [type |-> "link", readable |-> TRUE, size |-> 0, nul |-> FALSE,
            utf8 |-> TRUE, text |-> "", target |-> t]

\* /p            a project                /pe   its sibling, name sharing a prefix
\*   README.md                            /pe/k.py
\*   a.py  big.py  i.png  z  u.txt
\*   .git/c                               /o    another directory
\*   s/d.py  s/e.pyc  s/t/ (unreadable)   /o/f.py
\*   ln -> /o
FSNodes ==
    << <<<<n_p>>, Dir(TRUE)>>,
       <<<<n_p, n_README_md>>, File(3, "README")>>,
       <<<<n_p, n_a_py>>, File(2, "A")>>,
       <<<<n_p, n_big_py>>, File(5, "BIG")>>,
       <<<<n_p, n_i_png>>, File(5, "PNG")>>,
       <<<<n_p, n_z>>, [File(1, "Z") EXCEPT !.nul = TRUE]>>,
       <<<<n_p, n_u_txt>>, [File(2, "U") EXCEPT !.utf8 = FALSE]>>,
       <<<<n_p, n_git>>, Dir(TRUE)>>,
       <<<<n_p, n_git, n_c>>, File(1, "C")>>,
       <<<<n_p, n_s>>, Dir(TRUE)>>,
       <<<<n_p, n_s, n_d_py>>, File(2, "D")>>,
       <<<<n_p, n_s, n_e_pyc>>, File(3, "E")>>,
       <<<<n_p, n_s, n_t>>, Dir(FALSE)>>,
       <<<<n_p, n_ln>>, Link(<<n_o>>)>>,
       <<<<n_pe>>, Dir(TRUE)>>,
       <<<<n_pe, n_k_py>>, File(2, "K")>>,
       <<<<n_o>>, Dir(TRUE)>>,
       <<<<n_o, n_f_py>>, File(2, "F")>>
    >>

FileSystem ==
    [path \in {FSNodes[i][1] : i \in 1..Len(FSNodes)} |->
        FSNodes[CHOOSE i \in 1..Len(FSNodes) : FSNodes[i][1] = path][2]]

Nodes == DOMAIN fs

Entry(path) == fs[path]

\* Path.resolve() (non-strict): ".." steps to the parent, a symbolic link is
\* replaced by its target, a missing component is kept as written.
RECURSIVE ResolveFrom(_, _)
ResolveFrom(cur, rest) ==
    IF rest = <<>> THEN cur
    ELSE IF Head(rest) = Dot2 THEN ResolveFrom(Parent(cur), Tail(rest))
    ELSE LET cand == Append(cur, Head(rest))
         IN IF cand \in Nodes /\ Entry(cand).type = "link"
               THEN ResolveFrom(Entry(cand).target, Tail(rest))
               ELSE ResolveFrom(cand, Tail(rest))

Resolve(path) == ResolveFrom(<<>>, path)

\* Path.exists(), is_file(), is_dir(): all follow symbolic links
Exists(path) == Resolve(path) = <<>> \/ Resolve(path) \in Nodes
IsFile(path) == Resolve(path) \in Nodes /\ Entry(Resolve(path)).type = "file"
IsDir(path) ==
    \/ Resolve(path) = <<>>
    \/ Resolve(path) \in Nodes /\ Entry(Resolve(path)).type = "dir"

\* the names directory.iterdir() yields
Listing(path) ==
    {Name(q) : q \in {n \in Nodes : Len(n) = Len(Resolve(path)) + 1
                                     /\ Parent(n) = Resolve(path)}}

\* ------------------------------------------------------------ is_binary_file
\* the binary_extensions that occur in the file system above
binary_extensions == {<<".", "p", "n", "g">>, <<".", "p", "y", "c">>}

\* By extension first, else by the first 512 bytes (nul: they hold a NUL byte
\* or more than 30% control characters); a file that cannot be opened is not
\* binary.
is_binary_file(path) ==
    \/ Suffix(Name(path)) \in binary_extensions
    \/ IsFile(path) /\ Entry(Resolve(path)).nul

\* ------------------------------------------------------------------ read_file
Absent == [present |-> FALSE, text |-> ""]
Text(t) == [present |-> TRUE, text |-> t]

\* `str(full_path).startswith(str(self.project_root))`
Within(full, root) == StartsWith(Str(full), Str(root))

read_file(root, file_path) ==
    LET full == Resolve(root \o file_path)
    IN IF ~Within(full, root) THEN Absent
       ELSE IF ~Exists(full) \/ ~IsFile(full) THEN Absent
       ELSE IF is_binary_file(full) THEN Absent
       ELSE IF ~Entry(full).utf8 THEN Absent
       ELSE Text(Entry(full).text)

\* ---------------------------------------------------------------- get_readme
\* README.md at the root if it exists and can be read as text
get_readme(root) ==
    LET readme_path == Append(root, n_README_md)
    IN IF Exists(readme_path) /\ IsFile(readme_path)
          /\ Entry(Resolve(readme_path)).utf8
          THEN Text(Entry(Resolve(readme_path)).text)
          ELSE Absent

\* ----------------------------------------------------------- sorting helpers
\* sorted(S) of a set of str values
RECURSIVE SortStrs(_)
SortStrs(S) ==
    IF S = {} THEN <<>>
    ELSE LET m == CHOOSE x \in S : \A y \in S : x = y \/ StrLess(x, y)
         IN <<m>> \o SortStrs(S \ {m})

\* ------------------------------------------------------- get_directory_tree
\* the pattern compared with the whole path instead of its parts
tree_should_ignore_whole_path(path, ignore_patterns) ==
    \E pattern \in ignore_patterns : Str(path) = pattern

\* should_ignore of get_directory_tree: `pattern in parts`
tree_should_ignore(path, ignore_patterns) ==
    \E pattern \in ignore_patterns :
        \E i \in 1..Len(Parts(path)) : Parts(path)[i] = pattern

\* the key taken the other way round: files first
sorted_entries_files_first(directory) ==
    LET names == Listing(directory)
        dirs == {n \in names : ~IsFile(Append(directory, n))}
        files == {n \in names : IsFile(Append(directory, n))}
    IN SortStrs(files) \o SortStrs(dirs)

\* sorted(directory.iterdir(), key=lambda x: (x.is_file(), x.name)):
\* False sorts before True, so the entries that are not files come first.
sorted_entries(directory) ==
    LET names == Listing(directory)
        dirs == {n \in names : ~IsFile(Append(directory, n))}
        files == {n \in names : IsFile(Append(directory, n))}
    IN SortStrs(dirs) \o SortStrs(files)

TreeLine(prefix, is_last, path) ==
    [prefix |-> prefix, last |-> is_last, name |-> Name(path), path |-> path]

\* build_tree(directory, prefix, depth); `rel` is directory relative to the
\* root, `prefix` the list of is_last of the ancestors ("    " or "|   ").
RECURSIVE build_tree(_, _, _, _, _, _)
RECURSIVE tree_entries(_, _, _, _, _, _, _, _)

build_tree(root, rel, prefix, depth, max_depth, ignore_patterns) ==
    LET directory == root \o rel
    IN IF depth > max_depth THEN <<>>
       ELSE IF tree_should_ignore(directory, ignore_patterns) THEN <<>>
       ELSE IF ~Entry(Resolve(directory)).readable THEN <<>>
       ELSE LET entries == SelectSeq(sorted_entries(directory),
                    LAMBDA n : ~tree_should_ignore(Append(directory, n),
                                                   ignore_patterns))
            IN tree_entries(root, rel, prefix, depth, max_depth,
                            ignore_patterns, entries, 1)

tree_entries(root, rel, prefix, depth, max_depth, ignore_patterns, entries, i) ==
    IF i > Len(entries) THEN <<>>
    ELSE LET is_last == (i = Len(entries))
             entry == Append(rel, entries[i])
         IN <<TreeLine(prefix, is_last, entry)>>
            \o (IF IsDir(root \o entry) /\ depth < max_depth
                   THEN build_tree(root, entry, Append(prefix, is_last),
                                   depth + 1, max_depth, ignore_patterns)
                   ELSE <<>>)
            \o tree_entries(root, rel, prefix, depth, max_depth,
                            ignore_patterns, entries, i + 1)

\* What directory.iterdir() raises on the root, "" when it lists it. (Below
\* the root only directories are entered, and PermissionError is caught.)
IterdirError(root) ==
    IF ~Exists(root) THEN "FileNotFoundError"
    ELSE IF ~IsDir(root) THEN "NotADirectoryError"
    ELSE ""

get_directory_tree(root, max_depth, ignore_patterns) ==
    IF /\ ~tree_should_ignore(root, ignore_patterns)
       /\ IterdirError(root) # ""
       THEN [raised |-> IterdirError(root), header |-> <<>>, lines |-> <<>>]
       ELSE [raised |-> "",
             header |-> Str(root),
             lines |-> build_tree(root, <<>>, <<>>, 0, max_depth, ignore_patterns)]

\* -------------------------------------------------------------- get_all_files
\* should_ignore of get_all_files
files_should_ignore(path, ignore_patterns) ==
    \E pattern \in ignore_patterns :
        \/ \E i \in 1..Len(Parts(path)) : Parts(path)[i] = pattern
        \/ StartsWith(Name(path), StripStars(pattern))
        \/ /\ \E i \in 1..Len(pattern) : pattern[i] = "*"
           /\ FnMatch(Name(path), pattern)

\* scan_directory(directory, depth): the relative paths appended to `files`
RECURSIVE scan_directory(_, _, _, _, _, _)
scan_directory(root, rel, depth, max_depth, ignore_patterns, text_only) ==
    LET directory == root \o rel
    IN IF depth > max_depth THEN {}
       ELSE IF files_should_ignore(directory, ignore_patterns) THEN {}
       ELSE IF ~Entry(Resolve(directory)).readable THEN {}
       ELSE UNION {
              LET entry == Append(directory, n)
              IN IF files_should_ignore(entry, ignore_patterns) THEN {}
                 ELSE IF IsFile(entry)
                         THEN IF text_only /\ is_binary_file(entry) THEN {}
                              ELSE {Append(rel, n)}
                 ELSE IF IsDir(entry)
                         THEN scan_directory(root, Append(rel, n), depth + 1,
                                             max_depth, ignore_patterns, text_only)
                 ELSE {}
              : n \in Listing(directory)}

\* sorted(files): by the str of the relative path
RECURSIVE SortPaths(_)
SortPaths(S) ==
    IF S = {} THEN <<>>
    ELSE LET m == CHOOSE x \in S :
                    \A y \in S : x = y \/ StrLess(RelStr(x), RelStr(y))
         IN <<m>> \o SortPaths(S \ {m})

get_all_files(root, max_depth, ignore_patterns, text_only) ==
    IF /\ ~files_should_ignore(root, ignore_patterns)
       /\ IterdirError(root) # ""
       THEN [raised |-> IterdirError(root), files |-> <<>>]
       ELSE [raised |-> "",
             files |-> SortPaths(scan_directory(root, <<>>, 0, max_depth,
                                                ignore_patterns, text_only))]

\* -------------------------------------------------------------- build_context
\* The defaults of get_directory_tree and get_all_files. Of the default ignore
\* lists, the entries that can match a name of the file system above and one
\* that cannot.
TreeDefaultDepth == 3
FilesDefaultDepth == 5
n_dist == <<"d", "i", "s", "t">>
pat_pyc == <<"*", ".", "p", "y", "c">>
TreeDefaultIgnore == {n_git, n_dist}
FilesDefaultIgnore == {n_git, n_dist, pat_pyc}

Part(k, path, t, sz, names) ==
    [kind |-> k, path |-> path, text |-> t, size |-> sz, names |-> names,
     lines |-> <<>>]

\* skipped_binary[:5]
FirstFive(names) == SubSeq(names, 1, Min(Len(names), 5))

\* `file_size > max_file_size`
TooLargeBuggyInclusive(file_size, max_file_size) == file_size >= max_file_size

TooLarge(file_size, max_file_size) == file_size > max_file_size

\* The section of one file of files_to_include: <<>> when the file is deferred
\* to the skipped-binary note.
FileSection(root, file_path, max_file_size) ==
    LET content == read_file(root, file_path)
        full_path == root \o file_path
    IN IF ~content.present
          THEN IF Exists(full_path) /\ is_binary_file(full_path)
                  THEN <<>>
                  ELSE <<Part("not_found", file_path, "", 0, <<>>)>>
       ELSE IF ~Exists(full_path) THEN <<>>
       ELSE LET file_size == Entry(Resolve(full_path)).size
            IN IF TooLarge(file_size, max_file_size)
                  THEN <<Part("too_large", file_path, "", file_size, <<>>)>>
                  ELSE <<Part("file", file_path, content.text, 0, <<>>)>>

RECURSIVE FileSections(_, _, _)
FileSections(root, files, max_file_size) ==
    IF files = <<>> THEN <<>>
    ELSE FileSection(root, Head(files), max_file_size)
         \o FileSections(root, Tail(files), max_file_size)

SkippedBinary(root, files) ==
    SelectSeq(files, LAMBDA f : /\ ~read_file(root, f).present
                                /\ Exists(root \o f)
                                /\ is_binary_file(root \o f))

\* The list of files build_context works through.
files_to_include(root, selected_files, include_all_files) ==
    IF include_all_files /\ selected_files = <<>>
       THEN get_all_files(root, FilesDefaultDepth, FilesDefaultIgnore, TRUE)
       ELSE [raised |-> "", files |-> selected_files]

build_context(root, selected_files, include_readme, include_tree, include_all_files, max_file_size) ==
    LET tree == get_directory_tree(root, TreeDefaultDepth, TreeDefaultIgnore)
        readme == get_readme(root)
        todo == files_to_include(root, selected_files, include_all_files)
        skipped == SkippedBinary(root, todo.files)
    IN IF include_tree /\ tree.raised # ""
          THEN [raised |-> tree.raised, parts |-> <<>>]
       ELSE IF todo.raised # ""
          THEN [raised |-> todo.raised, parts |-> <<>>]
       ELSE [raised |-> "",
             parts |->
                (IF include_tree
                    THEN <<[Part("tree", <<>>, "", 0, <<>>)
                                EXCEPT !.lines = tree.lines]>>
                    ELSE <<>>)
                \o (IF include_readme /\ readme.present /\ readme.text # ""
                       THEN <<Part("readme", <<>>, readme.text, 0, <<>>)>>
                       ELSE <<>>)
                \o (IF todo.files # <<>>
                       THEN <<Part("header", <<>>, "", 0, <<>>)>>
                            \o FileSections(root, todo.files, max_file_size)
                            \o (IF skipped # <<>>
                                   THEN <<Part("skipped", <<>>, "", Len(skipped),
                                               FirstFive(skipped))>>
                                   ELSE <<>>)
                       ELSE <<>>)]

\* ------------------------------------------------------------------- inputs
\* The process's working directory.
Cwd == <<n_p, n_s>>

\* project_root arguments: None, a project, a missing path, a file, a link to
\* a directory.
NoPath == [given |-> FALSE, path |-> <<>>]
Given(path) == [given |-> TRUE, path |-> path]
RootArgs == {NoPath, Given(<<n_p>>), Given(<<n_nx>>), Given(<<n_p, n_a_py>>),
             Given(<<n_p, n_ln>>)}

IgnoreCandidates == {n_git, n_s, pat_pyc, <<"b">>}

\* file_path arguments of read_file
ReadPaths ==
    {<<n_a_py>>, <<n_big_py>>, <<n_i_png>>, <<n_z>>, <<n_u_txt>>, <<n_s>>,
     <<n_s, n_d_py>>, <<n_nx>>, <<n_ln, n_f_py>>, <<Dot2, n_o, n_f_py>>,
     <<Dot2, n_pe, n_k_py>>, <<Dot2, n_p, n_a_py>>, <<n_s, Dot2, n_a_py>>}

\* entries of selected_files
SelectablePaths ==
    {<<n_README_md>>, <<n_a_py>>, <<n_big_py>>, <<n_i_png>>, <<n_z>>, <<n_u_txt>>, <<n_nx>>,
     <<Dot2, n_o, n_f_py>>, <<Dot2, n_pe, n_k_py>>}

NoOp == [name |-> "", max_depth |-> 0, ignore_patterns |-> {}, text_only |-> FALSE,
         file_path |-> <<>>, selected_files |-> <<>>, include_readme |-> FALSE,
         include_tree |-> FALSE, include_all_files |-> FALSE, max_file_size |-> 0]

NoResult == [raised |-> "", header |-> <<>>, lines |-> <<>>, files |-> <<>>, content |-> Absent,
             parts |-> <<>>]

InitCtx ==
    /\ fs = FileSystem
    /\ cb_pc = "new"
    /\ project_root = <<>>
    /\ op = NoOp
    /\ result = NoResult

\* ContextBuilder.__init__: os.getcwd() when project_root is None, then
\* Path(project_root).resolve(). Nothing checks that the directory exists.
resolve_root(arg) == Resolve(IF arg.given THEN arg.path ELSE Cwd)

construct ==
    /\ cb_pc = "new"
    /\ \E arg \in RootArgs :
        /\ op' = [NoOp EXCEPT !.name = "__init__", !.file_path = arg.path,
                              !.include_all_files = arg.given]
        /\ project_root' = resolve_root(arg)
    /\ result' = NoResult
    /\ cb_pc' = "ready"
    /\ UNCHANGED fs

call_get_readme ==
    /\ cb_pc = "ready"
    /\ op' = [NoOp EXCEPT !.name = "get_readme"]
    /\ result' = [NoResult EXCEPT !.content = get_readme(project_root)]
    /\ cb_pc' = "returned"
    /\ UNCHANGED <<project_root, fs>>

call_get_directory_tree ==
    /\ cb_pc = "ready"
    /\ \E max_depth \in 0..MaxDepth, ignore_patterns \in SUBSET IgnoreCandidates :
        LET r == get_directory_tree(project_root, max_depth, ignore_patterns)
        IN /\ op' = [NoOp EXCEPT !.name = "get_directory_tree",
                                 !.max_depth = max_depth,
                                 !.ignore_patterns = ignore_patterns]
           /\ result' = [NoResult EXCEPT !.raised = r.raised,
                                         !.header = r.header, !.lines = r.lines]
    /\ cb_pc' = "returned"
    /\ UNCHANGED <<project_root, fs>>

call_get_all_files ==
    /\ cb_pc = "ready"
    /\ \E max_depth \in 0..MaxDepth, ignore_patterns \in SUBSET IgnoreCandidates,
          text_only \in BOOLEAN :
        LET r == get_all_files(project_root, max_depth, ignore_patterns, text_only)
        IN /\ op' = [NoOp EXCEPT !.name = "get_all_files",
                                 !.max_depth = max_depth,
                                 !.ignore_patterns = ignore_patterns,
                                 !.text_only = text_only]
           /\ result' = [NoResult EXCEPT !.raised = r.raised, !.files = r.files]
    /\ cb_pc' = "returned"
    /\ UNCHANGED <<project_root, fs>>

call_read_file ==
    /\ cb_pc = "ready"
    /\ \E file_path \in ReadPaths :
        /\ op' = [NoOp EXCEPT !.name = "read_file", !.file_path = file_path]
        /\ result' = [NoResult EXCEPT !.content = read_file(project_root, file_path)]
    /\ cb_pc' = "returned"
    /\ UNCHANGED <<project_root, fs>>

call_build_context ==
    /\ cb_pc = "ready"
    /\ \E selected_files \in SeqsUpTo(SelectablePaths, MaxSelected),
          include_readme \in BOOLEAN, include_tree \in BOOLEAN,
          include_all_files \in BOOLEAN, max_file_size \in 1..MaxSize :
        LET r == build_context(project_root, selected_files, include_readme,
                               include_tree, include_all_files, max_file_size)
        IN /\ op' = [NoOp EXCEPT !.name = "build_context",
                                 !.selected_files = selected_files,
                                 !.include_readme = include_readme,
                                 !.include_tree = include_tree,
                                 !.include_all_files = include_all_files,
                                 !.max_file_size = max_file_size]
           /\ result' = [NoResult EXCEPT !.raised = r.raised, !.parts = r.parts]
    /\ cb_pc' = "returned"
    /\ UNCHANGED <<project_root, fs>>

\* ------------------------------------------------------------- specifications
\* ===================================================================
\*                          MODEL PULL
\* ===================================================================

\* One line of /api/pull's NDJSON stream, by what json.loads makes of it:
\*   empty      ""   (skipped by `if line:`)
\*   malformed  json.loads raises JSONDecodeError
\*   event      a progress object, told apart by its "status"
Statuses == {"pulling manifest", "downloading", "success"}

PullLines ==
    {[kind |-> "empty", status |-> ""], [kind |-> "malformed", status |-> ""]}
    \cup {[kind |-> "event", status |-> s] : s \in Statuses}

\* What the download can raise, as the text of the error event: "connect"
\* (the POST: connection refused, or an argument the client library rejects),
\* "status" (raise_for_status), "read" (the stream breaks in mid-download).

NoProgress == [status |-> "", error |-> ""]

\* json.loads(line): the progress dict
Progress(line) == [status |-> line.status, error |-> ""]

\* {"error": str(e), "status": "error"}
ErrorEvent(cause) == [status |-> "error", error |-> cause]

\* f"data: {json.dumps(progress)}\n\n"
SseData(progress) == [kind |-> "data", payload |-> progress]

\* "data: [DONE]\n\n"
SseDone == [kind |-> "DONE", payload |-> NoProgress]

\* the body of `async for line in response.aiter_lines()`: what one line
\* makes pull_model yield
PullYield(line) ==
    IF line.kind = "empty" THEN <<>>
    ELSE IF line.kind = "malformed" THEN <<>>
    ELSE <<Progress(line)>>

RECURSIVE Forward(_)
\* generate() of the endpoint over what pull_model yielded
Forward(events) ==
    IF events = <<>> THEN <<>>
    ELSE <<SseData(events[1])>> \o Forward(Tail(events))

InitPull ==
    /\ pull_pc = "idle"
    /\ download_client = "none"
    /\ pull_posts = 0
    /\ pull_lines = <<>>
    /\ pull_out = <<>>
    /\ pull_error = ""
    /\ sse = <<>>

\* POST /api/models/pull: the StreamingResponse is returned, generate() has
\* not started
pull_request ==
    /\ pull_pc = "idle"
    /\ pull_pc' = "started"
    /\ UNCHANGED <<download_client, pull_posts, pull_lines, pull_out,
                   pull_error, sse>>

\* first step of the generators: the client is created and the POST is sent;
\* it answers, or the POST or raise_for_status raises and the except branch
\* yields the error event (the generator is then suspended inside `except`,
\* the client still open)
pull_start ==
    /\ pull_pc = "started"
    /\ pull_posts' = pull_posts + 1
    /\ download_client' = "open"
    /\ \/ /\ pull_pc' = "streaming"
          /\ UNCHANGED <<pull_out, pull_error, sse>>
       \/ \E cause \in {"connect", "status"} :
             /\ pull_error' = cause
             /\ pull_out' = Append(pull_out, ErrorEvent(cause))
             /\ sse' = Append(sse, SseData(ErrorEvent(cause)))
             /\ pull_pc' = "error_yielded"
    /\ UNCHANGED pull_lines

\* one more line arrives and goes through the loop body
pull_line ==
    /\ pull_pc = "streaming"
    /\ Len(pull_lines) < MaxPullLines
    /\ \E line \in PullLines :
          /\ pull_lines' = Append(pull_lines, line)
          /\ pull_out' = pull_out \o PullYield(line)
          /\ sse' = sse \o Forward(PullYield(line))
    /\ UNCHANGED <<pull_pc, download_client, pull_posts, pull_error>>

\* the except branch followed by a second POST
pull_fail_retry ==
    /\ pull_pc = "streaming"
    /\ pull_error = ""
    /\ pull_error' = "read"
    /\ pull_out' = Append(pull_out, ErrorEvent("read"))
    /\ sse' = Append(sse, SseData(ErrorEvent("read")))
    /\ pull_posts' = pull_posts + 1
    /\ UNCHANGED <<pull_pc, download_client, pull_lines>>

\* aiter_lines() raises in mid-download: `except Exception` yields the one
\* error event
pull_fail ==
    /\ pull_pc = "streaming"
    /\ pull_error' = "read"
    /\ pull_out' = Append(pull_out, ErrorEvent("read"))
    /\ sse' = Append(sse, SseData(ErrorEvent("read")))
    /\ pull_pc' = "error_yielded"
    /\ UNCHANGED <<download_client, pull_posts, pull_lines>>

\* the generator is resumed after the error event: `finally` closes the
\* client, pull_model ends and generate() sends the completion marker
pull_after_error ==
    /\ pull_pc = "error_yielded"
    /\ download_client' = "closed"
    /\ sse' = Append(sse, SseDone)
    /\ pull_pc' = "finished"
    /\ UNCHANGED <<pull_posts, pull_lines, pull_out, pull_error>>

\* the backend ends the stream: `finally`, then the completion marker
pull_end ==
    /\ pull_pc = "streaming"
    /\ download_client' = "closed"
    /\ sse' = Append(sse, SseDone)
    /\ pull_pc' = "finished"
    /\ UNCHANGED <<pull_posts, pull_lines, pull_out, pull_error>>

\* the consumer closing without running `finally`
pull_close_leak ==
    /\ pull_pc \in {"started", "streaming", "error_yielded"}
    /\ pull_pc' = "closed"
    /\ UNCHANGED <<download_client, pull_posts, pull_lines, pull_out,
                   pull_error, sse>>

\* the consumer closes the stream early: the generators are closed where
\* they stand (GeneratorExit is not an Exception, so no error event) and
\* `finally` closes the client if pull_model had started
pull_close ==
    /\ pull_pc \in {"started", "streaming", "error_yielded"}
    /\ pull_pc' = "closed"
    /\ download_client' = IF download_client = "open" THEN "closed"
                          ELSE download_client
    /\ UNCHANGED <<pull_posts, pull_lines, pull_out, pull_error, sse>>

Init == InitRelay /\ InitCtx /\ InitPull

\* One chat call.
Next ==
    \/ chat_completions /\ UNCHANGED <<ctxVars, pullVars>>
    \/ stream_open /\ UNCHANGED <<ctxVars, pullVars>>
    \/ stream_line /\ UNCHANGED <<ctxVars, pullVars>>
    \/ stream_end /\ UNCHANGED <<ctxVars, pullVars>>
    \/ stream_fail /\ UNCHANGED <<ctxVars, pullVars>>
    \/ client_disconnect /\ UNCHANGED <<ctxVars, pullVars>>
    \/ chat_call /\ UNCHANGED <<ctxVars, pullVars>>

Spec == Init /\ [][Next]_vars

\* One ContextBuilder and one operation on it.
NextCtx ==
    \/ construct /\ UNCHANGED <<relayVars, pullVars>>
    \/ call_get_readme /\ UNCHANGED <<relayVars, pullVars>>
    \/ call_get_directory_tree /\ UNCHANGED <<relayVars, pullVars>>
    \/ call_get_all_files /\ UNCHANGED <<relayVars, pullVars>>
    \/ call_read_file /\ UNCHANGED <<relayVars, pullVars>>
    \/ call_build_context /\ UNCHANGED <<relayVars, pullVars>>

SpecCtx == Init /\ [][NextCtx]_vars

\* one pull call
NextPull ==
    \/ pull_request /\ UNCHANGED <<relayVars, ctxVars>>
    \/ pull_start /\ UNCHANGED <<relayVars, ctxVars>>
    \/ pull_line /\ UNCHANGED <<relayVars, ctxVars>>
    \/ pull_fail /\ UNCHANGED <<relayVars, ctxVars>>
    \/ pull_after_error /\ UNCHANGED <<relayVars, ctxVars>>
    \/ pull_end /\ UNCHANGED <<relayVars, ctxVars>>
    \/ pull_close /\ UNCHANGED <<relayVars, ctxVars>>

SpecPull == Init /\ [][NextPull]_vars

\* ===================================================================
\*                            PROPERTIES
\* ===================================================================
Count(seq, kind) == Cardinality({i \in 1..Len(seq) : seq[i].kind = kind})

Fragment(line) == line.kind = "object" /\ line.hasMessage /\ ~line.done
DoneLine(line) == line.kind = "object" /\ line.done /\ line.content = ""

Deltas(ls) ==
    LET sel == SelectSeq(ls, LAMBDA l : l.content # "")
    IN [i \in 1..Len(sel) |-> Event("delta", sel[i].content)]

\* C1: when the backend has sent well-formed fragment lines followed by one
\* done line (and the transport has not failed), the relay has emitted, in
\* order, one delta per fragment with non-empty content, then one final chunk,
\* then one [DONE].
C1_FragmentsThenDone ==
    (/\ pc \in {"awaiting", "closed"}
     /\ conn \in {"open", "released"}
     /\ Len(lines) >= 1
     /\ \A i \in 1..(Len(lines) - 1) : Fragment(lines[i])
     /\ DoneLine(Last(lines)))
    => out = Deltas(SubSeq(lines, 1, Len(lines) - 1))
             \o <<Event("final", ""), Event("DONE", "")>>

C1_Witness ==
    /\ pc = "closed"
    /\ conn = "released"
    /\ Len(lines) = 3
    /\ Fragment(lines[1]) /\ lines[1].content = "He"
    /\ Fragment(lines[2]) /\ lines[2].content = "llo"
    /\ DoneLine(lines[3])
    /\ Len(out) = 4

\* C2: Closed is terminal: a [DONE] or an error payload is the last event of
\* the stream, so nothing is emitted after it.
C2_ClosedIsTerminal ==
    \A i \in 1..Len(out) : out[i].kind \in {"DONE", "error"} => i = Len(out)

\* C3: after a transport failure of a streaming call the stream holds exactly
\* one error payload, it is the last event, the call is closed and the backend
\* was called once.
C3_FailureOneErrorNoRetry ==
    conn = "failed" =>
        /\ pc = "closed"
        /\ Count(out, "error") = 1
        /\ Last(out).kind = "error"
        /\ backend_calls = 1

C3_Witness ==
    /\ conn = "failed"
    /\ Len(out) >= 2
    /\ out[1].kind = "delta"

\* The translation of a whole sequence of lines, stopping where one raises.
RECURSIVE Translate(_)
Translate(ls) ==
    IF ls = <<>> THEN <<>>
    ELSE Handle(Head(ls)).events
         \o (IF Handle(Head(ls)).raised THEN <<>> ELSE Translate(Tail(ls)))

\* C4: malformed lines are skipped: while the transport has not failed, the
\* events emitted are those of the received lines with the malformed lines
\* left out.
C4_MalformedSkipped ==
    (pc \in {"awaiting", "closed"} /\ conn \in {"open", "released"})
    => out = Translate(SelectSeq(lines, LAMBDA l : l.kind # "malformed"))

C4_Witness ==
    /\ Len(lines) = 3
    /\ Fragment(lines[1]) /\ lines[1].content = "He"
    /\ lines[2].kind = "malformed"
    /\ DoneLine(lines[3])
    /\ out = <<Event("delta", "He"), Event("final", ""), Event("DONE", "")>>

\* C5: a request with an empty model or an empty messages list is answered
\* with a 4xx status and no backend call is made for it.
C5_InvalidRejected ==
    (pc # "start" /\ (request.model = "" \/ request.messages = <<>>))
    => /\ pc = "rejected"
       /\ status \in 400..499
       /\ backend_calls = 0

C5_Witness ==
    /\ pc = "rejected"
    /\ request.stream
    /\ request.model = "llama3"
    /\ request.messages = <<>>

\* C9: the completion of a successful non-streaming call has one choice with
\* the backend's content and finish_reason "stop"; its token counts are the
\* backend's (0 when omitted) and total_tokens is their sum.
C9_NonStreamingMapping ==
    pc = "responded" =>
        /\ Len(response.choices) = 1
        /\ response.choices[1].content = data.content
        /\ response.choices[1].finish_reason = "stop"
        /\ response.prompt_tokens =
              (IF "prompt_eval_count" \in DOMAIN data.counts
                  THEN data.counts["prompt_eval_count"] ELSE 0)
        /\ response.completion_tokens =
              (IF "eval_count" \in DOMAIN data.counts
                  THEN data.counts["eval_count"] ELSE 0)
        /\ response.total_tokens =
              response.prompt_tokens + response.completion_tokens

C9_Witness ==
    /\ pc = "responded"
    /\ data.content = "hi"
    /\ DOMAIN data.counts = {"eval_count"}
    /\ data.counts["eval_count"] = 2
    /\ response.total_tokens = 2

\* ------------------------------------------------------- Context Assembler
\* root is an ancestor of (or equal to) path: comparison by path components
Inside(path, root) ==
    /\ Len(root) <= Len(path)
    /\ SubSeq(path, 1, Len(root)) = root

Returned(name) == cb_pc = "returned" /\ op.name = name

\* C6: read_file of a path that resolves outside the project root returns
\* absent.
C6_OutsideRootAbsent ==
    (Returned("read_file")
     /\ ~Inside(Resolve(project_root \o op.file_path), project_root))
    => ~result.content.present

\* The files build_context worked through, and what is on disk for each.
Processed ==
    files_to_include(project_root, op.selected_files, op.include_all_files).files

OnDisk(f) == Entry(Resolve(project_root \o f))

IsRegular(f) == IsFile(project_root \o f)

HasPart(kind, f) ==
    \E i \in 1..Len(result.parts) :
        result.parts[i].kind = kind /\ result.parts[i].path = f

SizePlaceholder(f) ==
    \E i \in 1..Len(result.parts) :
        /\ result.parts[i].kind = "too_large"
        /\ result.parts[i].path = f
        /\ result.parts[i].size = OnDisk(f).size

Verbatim(f) ==
    \E i \in 1..Len(result.parts) :
        /\ result.parts[i].kind = "file"
        /\ result.parts[i].path = f
        /\ result.parts[i].text = OnDisk(f).text

\* some part of the output carries the text of file f
RawContent(f) ==
    \E i \in 1..Len(result.parts) :
        /\ result.parts[i].kind \in {"file", "readme"}
        /\ result.parts[i].text = OnDisk(f).text

\* C7 as stated: every processed file larger than max_file_size has a size
\* placeholder and its content is nowhere in the output; every processed file
\* of at most max_file_size is emitted verbatim.
C7_Original ==
    (Returned("build_context") /\ result.raised = "")
    => \A i \in 1..Len(Processed) :
          LET f == Processed[i]
          IN IsRegular(f) =>
                IF OnDisk(f).size > op.max_file_size
                   THEN SizePlaceholder(f) /\ ~RawContent(f)
                   ELSE Verbatim(f)

\* C7 (amended): for every processed file that read_file returns (inside the
\* root by the prefix check, a regular file, not binary, decodable): larger
\* than max_file_size, the files section holds a size placeholder and no
\* section with its content; at most max_file_size, a verbatim section. A
\* processed file that read_file does not return never has a verbatim section.
C7_SizeLimit ==
    (Returned("build_context") /\ result.raised = "")
    => \A i \in 1..Len(Processed) :
          LET f == Processed[i]
          IN IF read_file(project_root, f).present
                THEN IF OnDisk(f).size > op.max_file_size
                        THEN SizePlaceholder(f) /\ ~HasPart("file", f)
                        ELSE Verbatim(f) /\ ~HasPart("too_large", f)
                ELSE ~HasPart("file", f) /\ ~HasPart("too_large", f)

C7_Witness ==
    /\ Returned("build_context")
    /\ project_root = <<n_p>>
    /\ op.selected_files = << <<n_big_py>>, <<n_a_py>> >>
    /\ op.max_file_size = 2
    /\ result.parts = <<Part("header", <<>>, "", 0, <<>>),
                        Part("too_large", <<n_big_py>>, "", 5, <<>>),
                        Part("file", <<n_a_py>>, "A", 0, <<>>)>>

\* C8: no entry listed by get_directory_tree or get_all_files has a path
\* segment that is in the ignore set given to the call.
NoIgnoredSegment(path, ignore_patterns) ==
    \A i \in 1..Len(path) : path[i] \notin ignore_patterns

C8_IgnoredPruned ==
    /\ Returned("get_directory_tree") =>
          \A i \in 1..Len(result.lines) :
              NoIgnoredSegment(result.lines[i].path, op.ignore_patterns)
    /\ Returned("get_all_files") =>
          \A i \in 1..Len(result.files) :
              NoIgnoredSegment(result.files[i], op.ignore_patterns)

\* an ignored directory that has a subtree is pruned from a non-empty tree
C8_Witness ==
    /\ Returned("get_directory_tree")
    /\ project_root = <<n_p>>
    /\ op.ignore_patterns = {n_s}
    /\ op.max_depth = 2
    /\ Len(result.lines) = 10
    /\ \E i \in 1..Len(result.lines) : result.lines[i].path = <<n_ln, n_f_py>>

\* C10: an instance exists only over an existing directory: construction with
\* anything else fails, so no operation runs on such a root.
C10_RootIsDirectory ==
    cb_pc \in {"ready", "returned"} => IsDir(project_root)

\* ------------------------------------------------- Completion Relay, continued
DoneObserved == \E i \in 1..Len(lines) : lines[i].kind = "object" /\ lines[i].done

\* C11: once the client has disconnected or the done marker has been observed,
\* the streaming connection to the backend is no longer held open.
C11_ReleasedAfterDoneOrDisconnect ==
    (pc = "disconnected" \/ DoneObserved) => conn # "open"

\* C13: when the event stream of a chat call has ended, its last event is
\* [DONE].
C13_EndsWithDone ==
    pc = "closed" => (out # <<>> /\ Last(out).kind = "DONE")

\* C17: in the messages handed to the backend no system message stands after
\* the first position, and the client's messages follow in their order.
C17_SystemFirst ==
    pc \in {"stream_ready", "calling", "awaiting", "closed", "disconnected",
            "responded", "failed"}
    => /\ \A i \in 2..Len(messages) : messages[i] # "system"
       /\ SubSeq(messages, Len(messages) - Len(request.messages) + 1,
                 Len(messages)) = request.messages

\* C18: an error whose text is connection-like or model-not-found-like reaches
\* the client with the hint, as the one 5xx response or the one error event,
\* after a single backend call.
C18_ErrorsAnnotated ==
    detail.cause \in {"connect", "notfound"}
    => /\ detail.hint
       /\ backend_calls = 1
       /\ (status = 500 \/ Count(out, "error") = 1)

\* ------------------------------------------------ Context Assembler, continued
Siblings(i, j) ==
    /\ i < j
    /\ Parent(result.lines[i].path) = Parent(result.lines[j].path)

LineIsFile(i) == IsFile(project_root \o result.lines[i].path)

ByName(i, j) ==
    /\ LineIsFile(i) = LineIsFile(j)
    /\ StrLess(result.lines[i].name, result.lines[j].name)

\* C14 as stated: at every level of the tree the files come first and the
\* directories after them, each group ordered by name.
C14_Original ==
    Returned("get_directory_tree") =>
        \A i, j \in 1..Len(result.lines) :
            Siblings(i, j) => (LineIsFile(i) /\ ~LineIsFile(j)) \/ ByName(i, j)

\* C14 (amended): at every level of the tree the entries that are not files
\* (directories) come first and the files after them, each group ordered by
\* name.
C14_DirectoriesFirst ==
    Returned("get_directory_tree") =>
        \A i, j \in 1..Len(result.lines) :
            Siblings(i, j) => (~LineIsFile(i) /\ LineIsFile(j)) \/ ByName(i, j)

C14_Witness ==
    /\ Returned("get_directory_tree")
    /\ project_root = <<n_p>>
    /\ op.ignore_patterns = {}
    /\ op.max_depth = 1
    /\ result.lines[1].path = <<n_git>>
    /\ result.lines[2].path = <<n_git, n_c>>
    /\ Last(result.lines).path = <<n_z>>

\* The files under the root within max_depth (text files when text_only), as
\* paths relative to the root.
Candidates ==
    {SubSeq(n, Len(project_root) + 1, Len(n)) :
        n \in {q \in Nodes : /\ Inside(q, project_root)
                             /\ Len(q) > Len(project_root)
                             /\ Entry(q).type = "file"
                             /\ Len(q) - Len(project_root) - 1 <= op.max_depth
                             /\ ~(op.text_only /\ is_binary_file(q))}}

\* a path segment equals an ignore entry, or the final segment matches an
\* entry that has a '*'
IgnoreGround(rel) ==
    \/ \E i \in 1..Len(project_root \o rel) :
          (project_root \o rel)[i] \in op.ignore_patterns
    \/ \E pattern \in op.ignore_patterns :
          /\ \E i \in 1..Len(pattern) : pattern[i] = "*"
          /\ FnMatch(Name(rel), pattern)

Listed(rel) == \E i \in 1..Len(result.files) : result.files[i] = rel

\* C15: get_all_files leaves a file out on ignore grounds only for an exact
\* segment match or a glob match of its final segment; every other file is
\* listed, and the list is sorted by path.
C15_OnlyExactOrGlob ==
    (Returned("get_all_files") /\ result.raised = "")
    => /\ \A rel \in Candidates : ~Listed(rel) => IgnoreGround(rel)
       /\ \A i, j \in 1..Len(result.files) :
             i < j => StrLess(RelStr(result.files[i]), RelStr(result.files[j]))

\* the files that have a section, a placeholder or a place in the
\* skipped-binary note
Mentioned ==
    {result.parts[i].path :
        i \in {k \in 1..Len(result.parts) :
                 result.parts[k].kind \in {"file", "too_large", "not_found"}}}
    \cup UNION {{result.parts[i].names[k] : k \in 1..Len(result.parts[i].names)} :
                  i \in 1..Len(result.parts)}

AllFiles == get_all_files(project_root, FilesDefaultDepth, FilesDefaultIgnore, TRUE).files

\* C16: with include_all_files set, the files of the output are those of
\* get_all_files, whatever selected_files is.
C16_AllFilesIgnoresSelected ==
    (Returned("build_context") /\ result.raised = "" /\ op.include_all_files)
    => Mentioned = {AllFiles[i] : i \in 1..Len(AllFiles)}

\* ------------------------------------------------------------- Model pull
RECURSIVE Events(_)
\* the progress objects among the lines, in arrival order
Events(ls) ==
    IF ls = <<>> THEN <<>>
    ELSE (IF ls[1].kind = "event" THEN <<[status |-> ls[1].status, error |-> ""]>>
          ELSE <<>>) \o Events(Tail(ls))

Failure == IF pull_error = "" THEN <<>> ELSE <<ErrorEvent(pull_error)>>

\* C12: pull_model yields the backend's progress events as they are and in
\* arrival order; an error adds exactly one error event after them and ends
\* the download: no further line is read and no second POST is sent. The
\* endpoint passes all of it on.
C12_ForwardedThenOneError ==
    /\ pull_out = Events(pull_lines) \o Failure
    /\ pull_posts <= 1
    /\ pull_error # "" => pull_pc \in {"error_yielded", "finished", "closed"}
    /\ SubSeq(sse, 1, Len(pull_out)) = Forward(pull_out)

C12_Witness ==
    /\ pull_pc = "finished"
    /\ pull_error = "read"
    /\ Len(pull_lines) = 3
    /\ Len(pull_out) = 3
    /\ pull_out[1].status = "pulling manifest"
    /\ pull_out[2].status = "downloading"
    /\ pull_out[3] = ErrorEvent("read")

\* C19: once the pull has finished or been closed, the download client is
\* not open, whichever way it ended.
C19_DownloadClientClosed ==
    pull_pc \in {"finished", "closed"} => download_client # "open"

C19_Witness ==
    /\ pull_pc = "closed"
    /\ download_client = "closed"
    /\ Len(pull_out) = 2
    /\ pull_error = ""

====
